---- MODULE Spec2Model ----
(***************************************************************************)
(* The pricing / validation engine of src/src/pages/Main/index.js:         *)
(* constant-product quotes, route resolution (calculateAmount), slippage   *)
(* bounds, the exchange-rate helper and the validateBuy / validateSell     *)
(* callbacks, over ethers BigNumber arithmetic (signed, arbitrary          *)
(* precision, division truncating toward zero and throwing on zero).       *)
(***************************************************************************)
EXTENDS Integers, Sequences, FiniteSets, TLC

(* ------------------------------ bounds --------------------------------- *)

\* Number of decimals of a fixed-point amount.  The code uses 18; the model
\* scales it down so that every product stays inside TLC's integers.
Decimals == 2

\* Width of the unsigned ceiling: MaxUint256 is modelled as 2^UintWidth - 1.
UintWidth == 8

\* Largest token-side reserve of the SOCKS pool drawn by Init.
MaxReserve == 3

\* Largest argument drawn for the pure quote functions.
MaxQuote == 12

(* --------------------------- JS values --------------------------------- *)

\* A value that may be undefined: <<>> is undefined, <<n>> is BigNumber n.
Undefined == <<>>

BN(n) == <<n>>

IsBN(x) == Len(x) = 1

Val(x) == x[1]

\* error.code of an error nobody tagged, and errorAccumulator when unset.
NoCode == "undefined"

\* The outcome of an expression that may throw.
Ok(v) == [threw |-> FALSE, value |-> v]

Thrown == [threw |-> TRUE, value |-> 0]

Abs(n) == IF n < 0 THEN -n ELSE n

\* BigNumber.div on a non-zero divisor: the quotient truncated toward zero.
BNdiv(a, b) ==
  IF (a < 0) = (b < 0) THEN Abs(a) \div Abs(b) ELSE -(Abs(a) \div Abs(b))

Zero == 0

One == 1

MaxUint256 == 2^UintWidth - 1

(* ---------------------- constant-product quotes ------------------------ *)

\* Variant: the reverse quote without the rounding unit.
InputFromOutputNoRoundUp(outputAmount, inputReserve, outputReserve) ==
  IF ~(IsBN(outputAmount) /\ IsBN(inputReserve) /\ IsBN(outputReserve))
  THEN Thrown
  ELSE LET numerator == Val(inputReserve) * Val(outputAmount) * 1000
           denominator == (Val(outputReserve) - Val(outputAmount)) * 997
       IN IF denominator = 0 THEN Thrown
          ELSE Ok(BNdiv(numerator, denominator))

\* Variant: the reverse quote with the operands of the denominator's
\* subtraction exchanged.
InputFromOutputSwappedSubtraction(outputAmount, inputReserve, outputReserve) ==
  IF ~(IsBN(outputAmount) /\ IsBN(inputReserve) /\ IsBN(outputReserve))
  THEN Thrown
  ELSE LET numerator == Val(inputReserve) * Val(outputAmount) * 1000
           denominator == (Val(outputAmount) - Val(outputReserve)) * 997
       IN IF denominator = 0 THEN Thrown
          ELSE Ok(BNdiv(numerator, denominator) + One)

\* Variant: the forward quote subtracting the fee-adjusted input from the
\* denominator instead of adding it.
OutputFromInputSubtractedInDenominator(inputAmount, inputReserve, outputReserve) ==
  IF ~(IsBN(inputAmount) /\ IsBN(inputReserve) /\ IsBN(outputReserve))
  THEN Thrown
  ELSE LET inputAmountWithFee == Val(inputAmount) * 997
           numerator == inputAmountWithFee * Val(outputReserve)
           denominator == Val(inputReserve) * 1000 - inputAmountWithFee
       IN IF denominator = 0 THEN Thrown
          ELSE Ok(BNdiv(numerator, denominator))

\* getInputPrice: the output bought by inputAmount.  A method call on
\* undefined and a division by zero both throw.
calculateEtherTokenOutputFromInput(inputAmount, inputReserve, outputReserve) ==
  IF ~(IsBN(inputAmount) /\ IsBN(inputReserve) /\ IsBN(outputReserve))
  THEN Thrown
  ELSE LET inputAmountWithFee == Val(inputAmount) * 997
           numerator == inputAmountWithFee * Val(outputReserve)
           denominator == Val(inputReserve) * 1000 + inputAmountWithFee
       IN IF denominator = 0 THEN Thrown
          ELSE Ok(BNdiv(numerator, denominator))

\* getOutputPrice: the input required to buy outputAmount, plus one.
calculateEtherTokenInputFromOutput(outputAmount, inputReserve, outputReserve) ==
  IF ~(IsBN(outputAmount) /\ IsBN(inputReserve) /\ IsBN(outputReserve))
  THEN Thrown
  ELSE LET numerator == Val(inputReserve) * Val(outputAmount) * 1000
           denominator == (Val(outputReserve) - Val(outputAmount)) * 997
       IN IF denominator = 0 THEN Thrown
          ELSE Ok(BNdiv(numerator, denominator) + One)

(* --------------------------- slippage bounds ---------------------------- *)

\* denominated in bips
ALLOWED_SLIPPAGE == 200

\* Variant: the bounds without the ceiling on the maximum.
SlippageBoundsNoCeiling(value) ==
  LET offset == BNdiv(value * ALLOWED_SLIPPAGE, 10000)
      minimum == value - offset
      maximum == value + offset
  IN [minimum |-> IF minimum < Zero THEN Zero ELSE minimum,
      maximum |-> maximum]

calculateSlippageBounds(value) ==
  LET offset == BNdiv(value * ALLOWED_SLIPPAGE, 10000)
      minimum == value - offset
      maximum == value + offset
  IN [minimum |-> IF minimum < Zero THEN Zero ELSE minimum,
      maximum |-> IF maximum > MaxUint256 THEN MaxUint256 ELSE maximum]

(* ----------------------------- exchange rate ---------------------------- *)

\* ethers.BigNumber.from(10).pow(ethers.BigNumber.from(18)), at the model's
\* number of decimals.
TenPowDecimals == 10^Decimals

\* The rate of a token/ETH pair: undefined unless both values are truthy
\* (every BigNumber object is, zero included); the division throws on zero.
getExchangeRate(inputValue, outputValue, invert) ==
  IF IsBN(inputValue) /\ IsBN(outputValue)
  THEN LET factor == TenPowDecimals
       IN IF invert
          THEN IF Val(outputValue) = 0 THEN Thrown
               ELSE Ok(BN(BNdiv(BNdiv(Val(inputValue) * factor, Val(outputValue))
                                  * TenPowDecimals, TenPowDecimals)))
          ELSE IF Val(inputValue) = 0 THEN Thrown
               ELSE Ok(BN(BNdiv(BNdiv(Val(outputValue) * factor, Val(inputValue))
                                  * TenPowDecimals, TenPowDecimals)))
  ELSE Ok(Undefined)

(* ------------------------- parsing an amount ---------------------------- *)

\* An entered amount is a string, modelled as its sequence of characters.
DigitChars == <<"0", "1", "2", "3", "4", "5", "6", "7", "8", "9">>

IsDigit(c) == \E i \in 1..10 : DigitChars[i] = c

DigitValue(c) == (CHOOSE i \in 1..10 : DigitChars[i] = c) - 1

\* BigNumber.from of a string of digits.
RECURSIVE DigitsValue(_)
DigitsValue(s) ==
  IF s = <<>> THEN 0
  ELSE DigitsValue(SubSeq(s, 1, Len(s) - 1)) * 10 + DigitValue(s[Len(s)])

RECURSIVE TrimTrailingZeros(_)
TrimTrailingZeros(f) ==
  IF f # <<>> /\ f[Len(f)] = "0"
  THEN TrimTrailingZeros(SubSeq(f, 1, Len(f) - 1))
  ELSE f

RECURSIVE PadZeros(_, _)
PadZeros(f, n) == IF Len(f) < n THEN PadZeros(Append(f, "0"), n) ELSE f

\* ethers.utils.parseUnits(value, decimals): the string must match
\* -?[0-9.]+, hold at most one point and something besides it, and no more
\* fractional digits (trailing zeros aside) than decimals; a leading minus
\* negates the result.
parseUnits(value, decimals) ==
  IF ~(/\ Len(value) > 0
       /\ value # <<"-">>
       /\ \A i \in 1..Len(value) :
            IsDigit(value[i]) \/ value[i] = "." \/ (i = 1 /\ value[i] = "-"))
  THEN Thrown
  ELSE LET negative == value[1] = "-"
           v == IF negative THEN Tail(value) ELSE value
           points == {i \in 1..Len(v) : v[i] = "."}
       IN IF v = <<".">> \/ Cardinality(points) > 1 THEN Thrown
          ELSE LET d == IF points = {} THEN Len(v) + 1 ELSE CHOOSE i \in points : TRUE
                   comp0 == SubSeq(v, 1, d - 1)
                   comp1 == SubSeq(v, d + 1, Len(v))
                   whole == IF comp0 = <<>> THEN <<"0">> ELSE comp0
                   fraction == TrimTrailingZeros(IF comp1 = <<>> THEN <<"0">> ELSE comp1)
               IN IF Len(fraction) > decimals THEN Thrown
                  ELSE LET padded == PadZeros(IF fraction = <<>> THEN <<"0">> ELSE fraction,
                                              decimals)
                           wei == DigitsValue(whole) * 10^decimals + DigitsValue(padded)
                       IN Ok(IF negative THEN 0 - wei ELSE wei)

\* ethers.utils.parseEther('.01'): the minimum gas-asset balance.
MinimumEtherBalance == parseUnits(<<".", "0", "1">>, Decimals).value

(* ------------------------------ error codes ----------------------------- *)

\* The kinds of validation error.
ERROR_CODES ==
  {"INVALID_AMOUNT", "INVALID_TRADE", "INSUFFICIENT_ETH_GAS",
   "INSUFFICIENT_SELECTED_TOKEN_BALANCE", "INSUFFICIENT_ALLOWANCE"}

\* ERROR_CODES.key: a name that is no key of the object reads as undefined.
ErrorCode(key) == IF key \in ERROR_CODES THEN key ELSE NoCode

(* --------------------------- route resolution --------------------------- *)

\* if (amount.lte(Zero) || amount.gte(MaxUint256)) throw Error(); a quote
\* that threw itself goes the same way.
QuoteOrThrow(amount) ==
  IF amount.threw THEN Thrown
  ELSE IF amount.value <= Zero \/ amount.value >= MaxUint256 THEN Thrown
  ELSE amount

\* Variant: calculateAmount with the reserves of a routed buy's second hop
\* exchanged.
calculateAmountHopReservesExchanged(inputTokenSymbol, outputTokenSymbol, SOCKSAmount, rSOCKSETH, rSOCKSToken, rSelectedTokenETH, rSelectedTokenToken) ==
  IF inputTokenSymbol = "ETH" /\ outputTokenSymbol = "SOCKS"
  THEN \* eth to token - buy
       QuoteOrThrow(calculateEtherTokenInputFromOutput(SOCKSAmount, rSOCKSETH, rSOCKSToken))
  ELSE IF inputTokenSymbol = "SOCKS" /\ outputTokenSymbol = "ETH"
  THEN \* token to eth - sell
       QuoteOrThrow(calculateEtherTokenOutputFromInput(SOCKSAmount, rSOCKSToken, rSOCKSETH))
  ELSE IF outputTokenSymbol = "SOCKS"
  THEN \* token to token - buy: eth needed, then tokens needed for that eth
       LET intermediateValue ==
             QuoteOrThrow(calculateEtherTokenInputFromOutput(
                            SOCKSAmount, rSOCKSETH, rSOCKSToken))
       IN IF intermediateValue.threw THEN Thrown
          ELSE QuoteOrThrow(calculateEtherTokenInputFromOutput(
                              BN(intermediateValue.value),
                              rSelectedTokenETH, rSelectedTokenToken))
  ELSE \* token to token - sell: eth gained, then tokens that eth yields
       LET intermediateValue ==
             QuoteOrThrow(calculateEtherTokenOutputFromInput(
                            SOCKSAmount, rSOCKSToken, rSOCKSETH))
       IN IF intermediateValue.threw THEN Thrown
          ELSE QuoteOrThrow(calculateEtherTokenOutputFromInput(
                              BN(intermediateValue.value),
                              rSelectedTokenETH, rSelectedTokenToken))

calculateAmount(inputTokenSymbol, outputTokenSymbol, SOCKSAmount, rSOCKSETH, rSOCKSToken, rSelectedTokenETH, rSelectedTokenToken) ==
  IF inputTokenSymbol = "ETH" /\ outputTokenSymbol = "SOCKS"
  THEN \* eth to token - buy
       QuoteOrThrow(calculateEtherTokenInputFromOutput(SOCKSAmount, rSOCKSETH, rSOCKSToken))
  ELSE IF inputTokenSymbol = "SOCKS" /\ outputTokenSymbol = "ETH"
  THEN \* token to eth - sell
       QuoteOrThrow(calculateEtherTokenOutputFromInput(SOCKSAmount, rSOCKSToken, rSOCKSETH))
  ELSE IF outputTokenSymbol = "SOCKS"
  THEN \* token to token - buy: eth needed, then tokens needed for that eth
       LET intermediateValue ==
             QuoteOrThrow(calculateEtherTokenInputFromOutput(
                            SOCKSAmount, rSOCKSETH, rSOCKSToken))
       IN IF intermediateValue.threw THEN Thrown
          ELSE QuoteOrThrow(calculateEtherTokenInputFromOutput(
                              BN(intermediateValue.value),
                              rSelectedTokenToken, rSelectedTokenETH))
  ELSE \* token to token - sell: eth gained, then tokens that eth yields
       LET intermediateValue ==
             QuoteOrThrow(calculateEtherTokenOutputFromInput(
                            SOCKSAmount, rSOCKSToken, rSOCKSETH))
       IN IF intermediateValue.threw THEN Thrown
          ELSE QuoteOrThrow(calculateEtherTokenOutputFromInput(
                              BN(intermediateValue.value),
                              rSelectedTokenETH, rSelectedTokenToken))

(* ------------------------------ state ---------------------------------- *)

VARIABLES
  selectedTokenSymbol,        \* useState(TOKEN_SYMBOLS.ETH)
  balance,                    \* useAddressBalance(account, token), per token
  allowanceSOCKS,             \* useAddressAllowance(account, SOCKS, exchange)
  allowanceSelectedToken,     \* useExchangeAllowance(account, selected token)
  reserveSOCKSETH,            \* ETH held by the SOCKS exchange
  reserveSOCKSToken,          \* SOCKS held by the SOCKS exchange
  reserveSelectedTokenETH,    \* useExchangeReserves(selected).reserveETH
  reserveSelectedTokenToken,  \* useExchangeReserves(selected).reserveToken
  reserveDAIETH,              \* ETH held by the DAI exchange
  reserveDAIToken,            \* DAI held by the DAI exchange
  USDExchangeRateETH,         \* useState()
  USDExchangeRateSelectedToken, \* useState()
  call                        \* the last call made and what it produced

ctx == <<selectedTokenSymbol, balance, allowanceSOCKS, allowanceSelectedToken,
         reserveSOCKSETH, reserveSOCKSToken, reserveSelectedTokenETH,
         reserveSelectedTokenToken, reserveDAIETH, reserveDAIToken>>

rates == <<USDExchangeRateETH, USDExchangeRateSelectedToken>>

vars == <<ctx, rates, call>>

Tokens == {"ETH", "SOCKS", "DAI"}

balanceETH == balance["ETH"]

balanceSOCKS == balance["SOCKS"]

balanceSelectedToken == balance[selectedTokenSymbol]

\* The component as constructed: ETH selected, no hook has delivered a value.
Constructed ==
  /\ selectedTokenSymbol = "ETH"
  /\ balance = [t \in Tokens |-> Undefined]
  /\ allowanceSOCKS = Undefined
  /\ allowanceSelectedToken = Undefined
  /\ reserveSOCKSETH = Undefined
  /\ reserveSOCKSToken = Undefined
  /\ reserveSelectedTokenETH = Undefined
  /\ reserveSelectedTokenToken = Undefined
  /\ reserveDAIETH = Undefined
  /\ reserveDAIToken = Undefined
  /\ USDExchangeRateETH = Undefined
  /\ USDExchangeRateSelectedToken = Undefined

(* ------------------------------ validation ----------------------------- *)

\* A call that threw: where, and the code its catch block put on the error.
Raise(fn, numberOfSOCKS, at, code) ==
  [fn |-> fn, args |-> <<numberOfSOCKS>>, threw |-> TRUE, at |-> at,
   code |-> code, checks |-> <<>>, ret |-> Undefined]

\* A call that returned ret after running the checks named.
Return(fn, numberOfSOCKS, checks, ret) ==
  [fn |-> fn, args |-> <<numberOfSOCKS>>, threw |-> FALSE, at |-> "return",
   code |-> NoCode, checks |-> checks, ret |-> <<ret>>]

\* if (!errorAccumulator) errorAccumulator = error, for a check that failed.
Accumulate(errorAccumulator, failed, code) ==
  IF failed /\ errorAccumulator = Undefined THEN <<code>> ELSE errorAccumulator

\* Variant: validateBuy checking the allowance of every paying asset, the
\* reference asset included, and against the exact amount.
validateBuyAllowanceAlways(numberOfSOCKS) ==
  LET parsedValue == parseUnits(numberOfSOCKS, Decimals)
      requiredValueInSelectedToken ==
        calculateAmount(selectedTokenSymbol, "SOCKS", BN(parsedValue.value),
                        reserveSOCKSETH, reserveSOCKSToken,
                        reserveSelectedTokenETH, reserveSelectedTokenToken)
      maximum == calculateSlippageBounds(requiredValueInSelectedToken.value).maximum
      e1 == Accumulate(Undefined,
                       IsBN(balanceETH) /\ Val(balanceETH) < MinimumEtherBalance,
                       ErrorCode("INSUFFICIENT_ETH_GAS"))
      e2 == Accumulate(e1,
                       IsBN(balanceSelectedToken) /\ Val(balanceSelectedToken) < maximum,
                       ErrorCode("INSUFFICIENT_SELECTED_TOKEN_BALANCE"))
      e3 == Accumulate(e2,
                       IsBN(allowanceSelectedToken)
                         /\ Val(allowanceSelectedToken) < requiredValueInSelectedToken.value,
                       ErrorCode("INSUFFICIENT_ALLOWANCE"))
  IN IF parsedValue.threw
     THEN Raise("validateBuy", numberOfSOCKS, "parseUnits", ErrorCode("INVALID_AMOUNT"))
     ELSE IF requiredValueInSelectedToken.threw
     THEN Raise("validateBuy", numberOfSOCKS, "calculateAmount", ErrorCode("INVALID_TRADE"))
     ELSE Return("validateBuy", numberOfSOCKS, <<"gas", "balance", "allowance">>,
                 [inputValue |-> requiredValueInSelectedToken.value,
                  maximumInputValue |-> maximum,
                  outputValue |-> parsedValue.value,
                  error |-> e3])

\* Variant: validateBuy letting a later failed check replace an earlier one.
validateBuyLastErrorWins(numberOfSOCKS) ==
  LET parsedValue == parseUnits(numberOfSOCKS, Decimals)
      requiredValueInSelectedToken ==
        calculateAmount(selectedTokenSymbol, "SOCKS", BN(parsedValue.value),
                        reserveSOCKSETH, reserveSOCKSToken,
                        reserveSelectedTokenETH, reserveSelectedTokenToken)
      maximum == calculateSlippageBounds(requiredValueInSelectedToken.value).maximum
      gas == IsBN(balanceETH) /\ Val(balanceETH) < MinimumEtherBalance
      bal == IsBN(balanceSelectedToken) /\ Val(balanceSelectedToken) < maximum
      alw == selectedTokenSymbol # "ETH" /\ IsBN(allowanceSelectedToken)
               /\ Val(allowanceSelectedToken) < maximum
      err == IF alw THEN <<ErrorCode("INSUFFICIENT_ALLOWANCE")>>
             ELSE IF bal THEN <<ErrorCode("INSUFFICIENT_SELECTED_TOKEN_BALANCE")>>
             ELSE IF gas THEN <<ErrorCode("INSUFFICIENT_ETH_GAS")>>
             ELSE Undefined
  IN IF parsedValue.threw
     THEN Raise("validateBuy", numberOfSOCKS, "parseUnits", ErrorCode("INVALID_AMOUNT"))
     ELSE IF requiredValueInSelectedToken.threw
     THEN Raise("validateBuy", numberOfSOCKS, "calculateAmount", ErrorCode("INVALID_TRADE"))
     ELSE Return("validateBuy", numberOfSOCKS,
                 IF selectedTokenSymbol # "ETH" THEN <<"gas", "balance", "allowance">>
                 ELSE <<"gas", "balance">>,
                 [inputValue |-> requiredValueInSelectedToken.value,
                  maximumInputValue |-> maximum,
                  outputValue |-> parsedValue.value,
                  error |-> err])

\* validateBuy(numberOfSOCKS): what buying the entered number of SOCKS with
\* the selected token takes.  A hook value still undefined skips its check.
validateBuy(numberOfSOCKS) ==
  LET parsedValue == parseUnits(numberOfSOCKS, Decimals)
      requiredValueInSelectedToken ==
        calculateAmount(selectedTokenSymbol, "SOCKS", BN(parsedValue.value),
                        reserveSOCKSETH, reserveSOCKSToken,
                        reserveSelectedTokenETH, reserveSelectedTokenToken)
      \* get max slippage amount
      maximum == calculateSlippageBounds(requiredValueInSelectedToken.value).maximum
      \* validate minimum ether balance
      e1 == Accumulate(Undefined,
                       IsBN(balanceETH) /\ Val(balanceETH) < MinimumEtherBalance,
                       ErrorCode("INSUFFICIENT_ETH_GAS"))
      \* validate minimum selected token balance
      e2 == Accumulate(e1,
                       IsBN(balanceSelectedToken) /\ Val(balanceSelectedToken) < maximum,
                       ErrorCode("INSUFFICIENT_SELECTED_TOKEN_BALANCE"))
      \* validate allowance
      e3 == IF selectedTokenSymbol # "ETH"
            THEN Accumulate(e2,
                            IsBN(allowanceSelectedToken)
                              /\ Val(allowanceSelectedToken) < maximum,
                            ErrorCode("INSUFFICIENT_ALLOWANCE"))
            ELSE e2
  IN IF parsedValue.threw
     THEN Raise("validateBuy", numberOfSOCKS, "parseUnits", ErrorCode("INVALID_AMOUNT"))
     ELSE IF requiredValueInSelectedToken.threw
     THEN Raise("validateBuy", numberOfSOCKS, "calculateAmount", ErrorCode("INVALID_TRADE"))
     ELSE Return("validateBuy", numberOfSOCKS,
                 IF selectedTokenSymbol # "ETH" THEN <<"gas", "balance", "allowance">>
                 ELSE <<"gas", "balance">>,
                 [inputValue |-> requiredValueInSelectedToken.value,
                  maximumInputValue |-> maximum,
                  outputValue |-> parsedValue.value,
                  error |-> e3])

\* Variant: validateSell checking the SOCKS balance against the slippage
\* minimum of the output instead of the amount sold.
validateSellBalanceAgainstBound(numberOfSOCKS) ==
  LET parsedValue == parseUnits(numberOfSOCKS, Decimals)
      requiredValueInSelectedToken ==
        calculateAmount("SOCKS", selectedTokenSymbol, BN(parsedValue.value),
                        reserveSOCKSETH, reserveSOCKSToken,
                        reserveSelectedTokenETH, reserveSelectedTokenToken)
      minimum == calculateSlippageBounds(requiredValueInSelectedToken.value).minimum
      e1 == Accumulate(Undefined, Val(balanceETH) < MinimumEtherBalance,
                       ErrorCode("INSUFFICIENT_ETH_GAS"))
      e2 == Accumulate(e1, Val(balanceSOCKS) < minimum,
                       ErrorCode("INSUFFICIENT_SELECTED_TOKEN_BALANCE"))
      e3 == Accumulate(e2, Val(allowanceSOCKS) < parsedValue.value,
                       ErrorCode("INSUFFICIENT_ALLOWANCE"))
  IN IF parsedValue.threw
     THEN Raise("validateSell", numberOfSOCKS, "parseUnits", ErrorCode("INVALID_AMOUNT"))
     ELSE IF requiredValueInSelectedToken.threw
     THEN Raise("validateSell", numberOfSOCKS, "calculateAmount",
                ErrorCode("INVALID_EXCHANGE"))
     ELSE IF ~IsBN(balanceETH)
     THEN Raise("validateSell", numberOfSOCKS, "balanceETH.lt", NoCode)
     ELSE IF ~IsBN(balanceSOCKS)
     THEN Raise("validateSell", numberOfSOCKS, "balanceSOCKS.lt", NoCode)
     ELSE IF ~IsBN(allowanceSOCKS)
     THEN Raise("validateSell", numberOfSOCKS, "allowanceSOCKS.lt", NoCode)
     ELSE Return("validateSell", numberOfSOCKS, <<"gas", "balance", "allowance">>,
                 [inputValue |-> parsedValue.value,
                  outputValue |-> requiredValueInSelectedToken.value,
                  minimumOutputValue |-> minimum,
                  error |-> e3])

\* validateSell(numberOfSOCKS): what selling the entered number of SOCKS for
\* the selected token yields.  Its checks call .lt on the hook values
\* unguarded, so one still undefined throws an untagged TypeError.
validateSell(numberOfSOCKS) ==
  LET parsedValue == parseUnits(numberOfSOCKS, Decimals)
      \* how much ETH or tokens the sale will result in
      requiredValueInSelectedToken ==
        calculateAmount("SOCKS", selectedTokenSymbol, BN(parsedValue.value),
                        reserveSOCKSETH, reserveSOCKSToken,
                        reserveSelectedTokenETH, reserveSelectedTokenToken)
      \* slippage-ized
      minimum == calculateSlippageBounds(requiredValueInSelectedToken.value).minimum
      \* validate minimum ether balance
      e1 == Accumulate(Undefined, Val(balanceETH) < MinimumEtherBalance,
                       ErrorCode("INSUFFICIENT_ETH_GAS"))
      \* validate minimum socks balance
      e2 == Accumulate(e1, Val(balanceSOCKS) < parsedValue.value,
                       ErrorCode("INSUFFICIENT_SELECTED_TOKEN_BALANCE"))
      \* validate allowance
      e3 == Accumulate(e2, Val(allowanceSOCKS) < parsedValue.value,
                       ErrorCode("INSUFFICIENT_ALLOWANCE"))
  IN IF parsedValue.threw
     THEN Raise("validateSell", numberOfSOCKS, "parseUnits", ErrorCode("INVALID_AMOUNT"))
     ELSE IF requiredValueInSelectedToken.threw
     THEN Raise("validateSell", numberOfSOCKS, "calculateAmount",
                ErrorCode("INVALID_EXCHANGE"))
     ELSE IF ~IsBN(balanceETH)
     THEN Raise("validateSell", numberOfSOCKS, "balanceETH.lt", NoCode)
     ELSE IF ~IsBN(balanceSOCKS)
     THEN Raise("validateSell", numberOfSOCKS, "balanceSOCKS.lt", NoCode)
     ELSE IF ~IsBN(allowanceSOCKS)
     THEN Raise("validateSell", numberOfSOCKS, "allowanceSOCKS.lt", NoCode)
     ELSE Return("validateSell", numberOfSOCKS, <<"gas", "balance", "allowance">>,
                 [inputValue |-> parsedValue.value,
                  outputValue |-> requiredValueInSelectedToken.value,
                  minimumOutputValue |-> minimum,
                  error |-> e3])

(* ------------------- one snapshot, validated repeatedly ----------------- *)

\* The amounts a user may enter: hundredths, a tenth, a whole, zero, a
\* negative amount, a non-number and a thousandth.
Inputs ==
  { <<".", "0", "1">>, <<".", "0", "2">>, <<".", "0", "3">>, <<"0", ".", "1">>,
    <<"1">>, <<"0">>, <<"-", ".", "0", "1">>, <<"x">>, <<".", "0", "0", "5">> }

\* The SOCKS pool: few SOCKS against much ETH, either side possibly empty.
SOCKSTokenReserves == {BN(n) : n \in 0..MaxReserve}

SOCKSETHReserves == {BN(0), BN(50), BN(150)}

\* The selected token's pool.
SelectedETHReserves == {BN(0), BN(120)}

SelectedTokenReserves == {BN(0), BN(40)}

\* Balances and allowances of a connected account.
Balances == {BN(0), BN(76), BN(MaxUint256)}

Allowances == {BN(0), BN(70), BN(MaxUint256)}

\* One consistent snapshot of the hooks: the reserves are loaded; with no
\* account every balance and allowance is undefined, with one all are
\* loaded.  ETH has no exchange of its own.
Init ==
  /\ selectedTokenSymbol \in {"ETH", "DAI"}
  /\ reserveSOCKSETH \in SOCKSETHReserves
  /\ reserveSOCKSToken \in SOCKSTokenReserves
  /\ IF selectedTokenSymbol = "ETH"
     THEN reserveSelectedTokenETH = Undefined /\ reserveSelectedTokenToken = Undefined
     ELSE reserveSelectedTokenETH \in SelectedETHReserves
          /\ reserveSelectedTokenToken \in SelectedTokenReserves
  /\ \E account \in BOOLEAN :
       IF account
       THEN /\ \E e \in Balances, k \in Balances,
                   t \in (IF selectedTokenSymbol = "ETH" THEN {Undefined} ELSE Balances) :
                 balance = [ETH |-> e, SOCKS |-> k, DAI |-> t]
            /\ allowanceSOCKS \in Allowances
            /\ allowanceSelectedToken \in Allowances
       ELSE /\ balance = [t \in Tokens |-> Undefined]
            /\ allowanceSOCKS = Undefined
            /\ allowanceSelectedToken = Undefined
  /\ reserveDAIETH = Undefined
  /\ reserveDAIToken = Undefined
  /\ USDExchangeRateETH = Undefined
  /\ USDExchangeRateSelectedToken = Undefined
  /\ call = [fn |-> "none", args |-> <<>>, threw |-> FALSE, at |-> "none",
             code |-> NoCode, checks |-> <<>>, ret |-> Undefined]

ValidateBuy ==
  \E numberOfSOCKS \in Inputs :
    /\ call' = validateBuy(numberOfSOCKS)
    /\ UNCHANGED <<ctx, rates>>

ValidateSell ==
  \E numberOfSOCKS \in Inputs :
    /\ call' = validateSell(numberOfSOCKS)
    /\ UNCHANGED <<ctx, rates>>

Next ==
  \/ ValidateBuy
  \/ ValidateSell

Spec == Init /\ [][Next]_vars

(* ---------------- the quote functions applied to arguments -------------- *)

QuoteArgs == 0..MaxQuote

InitQuote ==
  /\ Constructed
  /\ \E a \in QuoteArgs, rin \in QuoteArgs, rout \in QuoteArgs :
       call = [fn |-> "args", args |-> <<a, rin, rout>>,
               first |-> Thrown, result |-> Thrown]

\* calculateEtherTokenOutputFromInput(amount, r_in, r_out)
ForwardQuote ==
  LET a == call.args
      r == calculateEtherTokenOutputFromInput(BN(a[1]), BN(a[2]), BN(a[3]))
  IN /\ call' = [fn |-> "forward", args |-> a, first |-> r, result |-> r]
     /\ UNCHANGED <<ctx, rates>>

\* calculateEtherTokenInputFromOutput(amount, r_in, r_out)
ReverseQuote ==
  LET a == call.args
      r == calculateEtherTokenInputFromOutput(BN(a[1]), BN(a[2]), BN(a[3]))
  IN /\ call' = [fn |-> "reverse", args |-> a, first |-> r, result |-> r]
     /\ UNCHANGED <<ctx, rates>>

\* reverse(forward(amount, r_in, r_out), r_in, r_out)
ForwardThenReverse ==
  LET a == call.args
      f == calculateEtherTokenOutputFromInput(BN(a[1]), BN(a[2]), BN(a[3]))
      r == IF f.threw THEN Thrown
           ELSE calculateEtherTokenInputFromOutput(BN(f.value), BN(a[2]), BN(a[3]))
  IN /\ call' = [fn |-> "forwardThenReverse", args |-> a, first |-> f, result |-> r]
     /\ UNCHANGED <<ctx, rates>>

\* forward(reverse(amount, r_in, r_out), r_in, r_out)
ReverseThenForward ==
  LET a == call.args
      f == calculateEtherTokenInputFromOutput(BN(a[1]), BN(a[2]), BN(a[3]))
      r == IF f.threw THEN Thrown
           ELSE calculateEtherTokenOutputFromInput(BN(f.value), BN(a[2]), BN(a[3]))
  IN /\ call' = [fn |-> "reverseThenForward", args |-> a, first |-> f, result |-> r]
     /\ UNCHANGED <<ctx, rates>>

\* calculateEtherTokenOutputFromInput at two amounts, amount and other,
\* against the same reserves.
ForwardQuotePair ==
  \E other \in QuoteArgs :
    LET a == call.args
        f == calculateEtherTokenOutputFromInput(BN(a[1]), BN(a[2]), BN(a[3]))
        r == calculateEtherTokenOutputFromInput(BN(other), BN(a[2]), BN(a[3]))
    IN /\ call' = [fn |-> "forwardPair", args |-> a, first |-> f, result |-> r,
                   other |-> other]
       /\ UNCHANGED <<ctx, rates>>

NextQuote ==
  \/ ForwardQuote
  \/ ReverseQuote
  \/ ForwardThenReverse
  \/ ReverseThenForward
  \/ ForwardQuotePair

SpecQuote == InitQuote /\ [][NextQuote]_vars

(* ------------- calculateSlippageBounds applied to an amount ------------- *)

\* The amounts drawn: the whole valid range and a margin on either side.
SlippageArgs == (0 - MaxQuote)..(MaxUint256 + MaxQuote)

InitSlippage ==
  /\ Constructed
  /\ \E x \in SlippageArgs :
       call = [fn |-> "args", args |-> <<x>>,
               result |-> [minimum |-> 0, maximum |-> 0]]

\* calculateSlippageBounds(value)
SlippageBounds ==
  /\ call' = [fn |-> "calculateSlippageBounds", args |-> call.args,
              result |-> calculateSlippageBounds(call.args[1])]
  /\ UNCHANGED <<ctx, rates>>

NextSlippage == SlippageBounds

SpecSlippage == InitSlippage /\ [][NextSlippage]_vars

(* ---------------- the exchange rate and the USD-rate effect ------------- *)

\* What a reserve hook may have delivered.
RateReserves == {Undefined} \cup {BN(n) : n \in 0..MaxReserve}

InitRate ==
  /\ selectedTokenSymbol \in {"ETH", "DAI"}
  /\ balance = [t \in Tokens |-> Undefined]
  /\ allowanceSOCKS = Undefined
  /\ allowanceSelectedToken = Undefined
  /\ reserveSOCKSETH = Undefined
  /\ reserveSOCKSToken = Undefined
  /\ reserveDAIETH \in RateReserves
  /\ reserveDAIToken \in RateReserves
  /\ IF selectedTokenSymbol = "ETH"
     THEN reserveSelectedTokenETH = Undefined /\ reserveSelectedTokenToken = Undefined
     ELSE reserveSelectedTokenETH \in RateReserves
          /\ reserveSelectedTokenToken \in RateReserves
  /\ USDExchangeRateETH = Undefined
  /\ USDExchangeRateSelectedToken = Undefined
  /\ call = [fn |-> "none", args |-> <<Undefined, Undefined, FALSE>>,
             result |-> Ok(Undefined)]

\* getExchangeRate(reserveDAIETH, reserveDAIToken, invert)
CallGetExchangeRate ==
  \E invert \in BOOLEAN :
    /\ call' = [fn |-> "getExchangeRate",
                args |-> <<reserveDAIETH, reserveDAIToken, invert>>,
                result |-> getExchangeRate(reserveDAIETH, reserveDAIToken, invert)]
    /\ UNCHANGED <<ctx, rates>>

\* The effect that derives the USD rates; whatever it throws is caught and
\* both rates are reset.
USDExchangeRateEffect ==
  LET exchangeRateDAI == getExchangeRate(reserveDAIETH, reserveDAIToken, FALSE)
      exchangeRateSelectedToken ==
        getExchangeRate(reserveSelectedTokenETH, reserveSelectedTokenToken, FALSE)
      caught == /\ USDExchangeRateETH' = Undefined
                /\ USDExchangeRateSelectedToken' = Undefined
  IN /\ IF exchangeRateDAI.threw THEN caught
        ELSE IF selectedTokenSymbol = "ETH"
        THEN /\ USDExchangeRateETH' = exchangeRateDAI.value
             /\ UNCHANGED USDExchangeRateSelectedToken
        ELSE IF exchangeRateSelectedToken.threw THEN caught
        ELSE IF IsBN(exchangeRateDAI.value) /\ IsBN(exchangeRateSelectedToken.value)
        THEN IF Val(exchangeRateSelectedToken.value) = 0 THEN caught
             ELSE /\ USDExchangeRateSelectedToken' =
                       BN(BNdiv(Val(exchangeRateDAI.value) * TenPowDecimals,
                                Val(exchangeRateSelectedToken.value)))
                  /\ UNCHANGED USDExchangeRateETH
        ELSE UNCHANGED rates
     /\ call' = [fn |-> "effect",
                 args |-> <<reserveDAIETH, reserveDAIToken, FALSE>>,
                 result |-> exchangeRateDAI]
     /\ UNCHANGED ctx

NextRate ==
  \/ CallGetExchangeRate
  \/ USDExchangeRateEffect

SpecRate == InitRate /\ [][NextRate]_vars

(* ------------------------------ claims --------------------------------- *)

\* The arguments of the quote under check are positive.
PositiveArgs == call.args[1] > 0 /\ call.args[2] > 0 /\ call.args[3] > 0

\* C1 (as stated): for positive reserves and 0 < inputAmount < r_in, the
\* reverse quote of the forward quote is at least inputAmount.
C1_RoundTripNeverUnderCharges ==
  (call.fn = "forwardThenReverse" /\ PositiveArgs /\ call.args[1] < call.args[2])
    => (~call.result.threw /\ call.result.value >= call.args[1])

\* C1 (amended): for positive reserves and 0 < inputAmount < r_in, the
\* reverse quote of the forward quote is defined, lies between 1 and
\* inputAmount + 1, and still buys at least the forward quote.
C1_RoundTripWithinOneUnit ==
  (call.fn = "forwardThenReverse" /\ PositiveArgs /\ call.args[1] < call.args[2])
    => /\ ~call.first.threw
       /\ ~call.result.threw
       /\ call.result.value >= 1
       /\ call.result.value <= call.args[1] + 1
       /\ calculateEtherTokenOutputFromInput(
            BN(call.result.value), BN(call.args[2]), BN(call.args[3])).value
            >= call.first.value

\* C1 witness: a round trip with a positive forward quote that comes back
\* strictly below the input it started from.
C1_Witness ==
  /\ call.fn = "forwardThenReverse"
  /\ PositiveArgs
  /\ call.args[1] < call.args[2]
  /\ call.first.value > 0
  /\ ~call.result.threw
  /\ call.result.value < call.args[1]

\* C2: for positive reserves and 0 < outputAmount < r_out, the forward
\* quote of the reverse quote delivers at least outputAmount.
C2_ReverseQuoteNeverUnderDelivers ==
  (call.fn = "reverseThenForward" /\ PositiveArgs /\ call.args[1] < call.args[3])
    => /\ ~call.first.threw
       /\ ~call.result.threw
       /\ call.result.value >= call.args[1]

\* C2 witness: a reverse quote whose rounding unit is needed: one unit less
\* of input would deliver less than the requested output.
C2_Witness ==
  /\ call.fn = "reverseThenForward"
  /\ PositiveArgs
  /\ call.args[1] < call.args[3]
  /\ ~call.result.threw
  /\ call.result.value >= call.args[1]
  /\ calculateEtherTokenOutputFromInput(
       BN(call.first.value - 1), BN(call.args[2]), BN(call.args[3])).value
       < call.args[1]

\* C8: calculateSlippageBounds brackets every amount x in 0..MaxUint256:
\* 0 <= minimum <= x <= maximum <= MaxUint256, with minimum = x - offset and
\* maximum = x + offset capped at MaxUint256, offset = floor(x*200/10000).
C8_SlippageBoundsBracket ==
  (call.fn = "calculateSlippageBounds"
     /\ call.args[1] >= 0 /\ call.args[1] <= MaxUint256)
    => LET x == call.args[1]
           offset == (x * 200) \div 10000
       IN /\ 0 <= call.result.minimum
          /\ call.result.minimum <= x
          /\ x <= call.result.maximum
          /\ call.result.maximum <= MaxUint256
          /\ call.result.minimum = x - offset
          /\ call.result.maximum =
               (IF x + offset > MaxUint256 THEN MaxUint256 ELSE x + offset)

\* C8 witness: a valid amount with a non-zero offset whose upper bound was
\* capped at MaxUint256.
C8_Witness ==
  /\ call.fn = "calculateSlippageBounds"
  /\ call.args[1] < MaxUint256
  /\ call.args[1] + (call.args[1] * 200) \div 10000 > MaxUint256
  /\ call.result.maximum = MaxUint256
  /\ call.result.minimum < call.args[1]

\* A reserve that is absent or zero.
AbsentOrZero(r) == ~IsBN(r) \/ Val(r) = 0

\* C9: in either direction, getExchangeRate returns undefined, without
\* throwing, whenever either reserve is absent or zero.
C9_RateUnavailableOnZeroReserve ==
  (call.fn = "getExchangeRate"
     /\ (AbsentOrZero(call.args[1]) \/ AbsentOrZero(call.args[2])))
    => (~call.result.threw /\ call.result.value = Undefined)

(* claims about validateBuy and validateSell, on the last call made *)

\* The amount the last call was given, parsed.
Parsed == parseUnits(call.args[1], Decimals)

\* The route of a buy, and of a sell, for the amount the last call was given.
BuyRoute ==
  calculateAmount(selectedTokenSymbol, "SOCKS", BN(Parsed.value),
                  reserveSOCKSETH, reserveSOCKSToken,
                  reserveSelectedTokenETH, reserveSelectedTokenToken)

SellRoute ==
  calculateAmount("SOCKS", selectedTokenSymbol, BN(Parsed.value),
                  reserveSOCKSETH, reserveSOCKSToken,
                  reserveSelectedTokenETH, reserveSelectedTokenToken)

IsCall(fn) == call.fn = fn /\ ~Parsed.threw

\* The quote the last call returned.
Quote == call.ret[1]

\* A value is loaded and below a threshold.
Below(x, n) == IsBN(x) /\ Val(x) < n

\* The 0.01-unit minimum of the gas asset.
GasMinimum == 10^(Decimals - 2)

\* C3 (as stated): a direct buy or sell of a positive amount against a pool
\* with a zero reserve throws in calculateAmount and returns no amount.
C3_ZeroReserveQuoteFails ==
  ((IsCall("validateBuy") \/ IsCall("validateSell"))
     /\ selectedTokenSymbol = "ETH"
     /\ Parsed.value > 0
     /\ (Val(reserveSOCKSETH) = 0 \/ Val(reserveSOCKSToken) = 0))
    => (call.threw /\ call.at = "calculateAmount" /\ call.ret = Undefined)

\* C4: with both reserves positive, a buy of at least the whole SOCKS
\* reserve throws INVALID_TRADE and returns no amount.
C4_BuyAtOrAboveReserveFails ==
  (IsCall("validateBuy")
     /\ Val(reserveSOCKSETH) > 0 /\ Val(reserveSOCKSToken) > 0
     /\ Parsed.value >= Val(reserveSOCKSToken))
    => /\ call.threw
       /\ call.at = "calculateAmount"
       /\ call.code = "INVALID_TRADE"
       /\ call.ret = Undefined

\* C4 witness: a buy of more than the reserve (a negative denominator)
\* that was refused.
C4_Witness ==
  /\ IsCall("validateBuy")
  /\ Val(reserveSOCKSETH) > 0 /\ Val(reserveSOCKSToken) > 0
  /\ Parsed.value > Val(reserveSOCKSToken)
  /\ call.threw
  /\ call.code = "INVALID_TRADE"

\* The first failing check of a buy, in the order gas, balance, allowance.
BuyFirstFailure(maximum) ==
  IF Below(balanceETH, GasMinimum) THEN <<"INSUFFICIENT_ETH_GAS">>
  ELSE IF Below(balanceSelectedToken, maximum)
  THEN <<"INSUFFICIENT_SELECTED_TOKEN_BALANCE">>
  ELSE IF selectedTokenSymbol # "ETH" /\ Below(allowanceSelectedToken, maximum)
  THEN <<"INSUFFICIENT_ALLOWANCE">>
  ELSE Undefined

\* The slippage maximum of an amount below the ceiling.
MaximumOf(x) ==
  IF x + (x * 200) \div 10000 > MaxUint256 THEN MaxUint256
  ELSE x + (x * 200) \div 10000

\* C5: validateBuy with a valid amount and a resolvable route returns a
\* quote with the exact input, the exact output and the slippage maximum,
\* and its error is the first failing check in the order gas, balance,
\* allowance, or none.
C5_BuyQuoteAndFirstError ==
  (IsCall("validateBuy") /\ ~BuyRoute.threw)
    => /\ ~call.threw
       /\ Quote.inputValue = BuyRoute.value
       /\ Quote.outputValue = Parsed.value
       /\ Quote.maximumInputValue = MaximumOf(BuyRoute.value)
       /\ Quote.error = BuyFirstFailure(MaximumOf(BuyRoute.value))

\* C5 witness: gas, balance and allowance all fail at once, and the quote
\* comes back populated with INSUFFICIENT_ETH_GAS.
C5_Witness ==
  /\ IsCall("validateBuy")
  /\ ~call.threw
  /\ selectedTokenSymbol # "ETH"
  /\ Below(balanceETH, GasMinimum)
  /\ Below(balanceSelectedToken, Quote.maximumInputValue)
  /\ Below(allowanceSelectedToken, Quote.maximumInputValue)
  /\ Quote.inputValue > 0
  /\ Quote.maximumInputValue > Quote.inputValue
  /\ Quote.error = <<"INSUFFICIENT_ETH_GAS">>

C7_DegenerateQuoteAbortsWithInvalidTrade ==
  /\ (IsCall("validateBuy") /\ BuyRoute.threw)
       => (call.threw /\ call.code = "INVALID_TRADE"
             /\ call.ret = Undefined /\ call.checks = <<>>)
  /\ (IsCall("validateSell") /\ SellRoute.threw)
       => (call.threw /\ call.code = "INVALID_TRADE"
             /\ call.ret = Undefined /\ call.checks = <<>>)

\* C10: validateBuy reports INSUFFICIENT_ALLOWANCE exactly when the paying
\* asset is not ETH, the gas and balance checks pass and the allowance is
\* below the slippage maximum of the required input; never for ETH.
C10_AllowanceOnlyForNonReferenceAsset ==
  (IsCall("validateBuy") /\ ~call.threw)
    => /\ selectedTokenSymbol = "ETH"
            => Quote.error # <<"INSUFFICIENT_ALLOWANCE">>
       /\ Quote.error = <<"INSUFFICIENT_ALLOWANCE">>
            <=> /\ selectedTokenSymbol # "ETH"
                /\ ~Below(balanceETH, GasMinimum)
                /\ ~Below(balanceSelectedToken, MaximumOf(Quote.inputValue))
                /\ Below(allowanceSelectedToken, MaximumOf(Quote.inputValue))

\* C10 witness: ETH pays, the gas and balance checks pass, the allowance
\* value is below the slippage maximum, and no error is reported.
C10_Witness ==
  /\ IsCall("validateBuy")
  /\ ~call.threw
  /\ selectedTokenSymbol = "ETH"
  /\ ~Below(balanceETH, GasMinimum)
  /\ ~Below(balanceSelectedToken, Quote.maximumInputValue)
  /\ Below(allowanceSelectedToken, Quote.maximumInputValue)
  /\ Quote.error = Undefined

\* C11: for positive reserves and amounts 0 <= a <= b, the forward quote of
\* a is at most the forward quote of b.
C11_ForwardQuoteMonotone ==
  (call.fn = "forwardPair"
     /\ call.args[2] > 0 /\ call.args[3] > 0
     /\ call.args[1] <= call.other)
    => /\ ~call.first.threw
       /\ ~call.result.threw
       /\ call.first.value <= call.result.value

\* C11 witness: two different amounts against positive reserves, the
\* larger quoting strictly more than the smaller, which quotes something.
C11_Witness ==
  /\ call.fn = "forwardPair"
  /\ call.args[2] > 0 /\ call.args[3] > 0
  /\ call.args[1] < call.other
  /\ call.first.value > 0
  /\ call.first.value < call.result.value

\* A quote that is out of range: thrown, <= 0 or >= MaxUint256.
OutOfRange(q) == q.threw \/ q.value <= 0 \/ q.value >= MaxUint256

\* The first hop of a routed buy: the ETH the SOCKS asked for take.
FirstHop ==
  calculateEtherTokenInputFromOutput(BN(Parsed.value), reserveSOCKSETH, reserveSOCKSToken)

\* The second hop: the selected tokens that ETH takes.
SecondHop ==
  calculateEtherTokenInputFromOutput(BN(FirstHop.value), reserveSelectedTokenToken, reserveSelectedTokenETH)

\* C12: a routed buy (the paying asset neither ETH nor SOCKS) returns
\* exactly the reverse quote of the reverse quote, and fails as a whole,
\* returning no amount, when either hop is out of range.
C12_RoutedBuyComposesReverseQuotes ==
  (IsCall("validateBuy") /\ selectedTokenSymbol \notin {"ETH", "SOCKS"})
    => IF OutOfRange(FirstHop) \/ OutOfRange(SecondHop)
       THEN call.threw /\ call.at = "calculateAmount" /\ call.ret = Undefined
       ELSE ~call.threw /\ Quote.inputValue = SecondHop.value

\* C12 witness: a routed buy that resolved, both hops positive and the
\* second different from the first.
C12_Witness ==
  /\ IsCall("validateBuy")
  /\ selectedTokenSymbol = "DAI"
  /\ ~call.threw
  /\ FirstHop.value > 0
  /\ Quote.inputValue = SecondHop.value
  /\ Quote.inputValue # FirstHop.value

\* A routed buy whose first hop is in range and whose second is not is
\* refused whole.
C12_SecondHopFailureReached ==
  /\ IsCall("validateBuy")
  /\ selectedTokenSymbol = "DAI"
  /\ ~OutOfRange(FirstHop)
  /\ OutOfRange(SecondHop)
  /\ call.threw

====
